---------------------------- MODULE Spec2Model ----------------------------
(***************************************************************************)
(* Canvas synchronisation and placement scheduling of the r/place client:   *)
(* PlaceClient (src/place.py) with the collaborators of src/src/connect.py. *)
(* One worker thread per identity runs task(); the main thread runs         *)
(* start().  The module src.mappings (ColorMapper) is not part of the       *)
(* source tree and is modelled from the specification (section 4.1).        *)
(***************************************************************************)
EXTENDS Integers, Sequences, FiniteSets, TLC

\* Python's None where a string is held
None == "None"
\* no timestamp is stored (the key is absent)
NoTime == -1

(***************************************************************************)
(* Bounds of the model.                                                     *)
(***************************************************************************)
\* time.time() when start() begins
StartTime == 1000
\* how many times the poll wait of get_wrong_pixel times out, all workers
\* together
MaxPolls == 2
\* how many times a connection fails and is tried again, all workers together
MaxRetries == 1
\* iterations of the inner loop of start() between two settings of
\* template_outdated (range(100) in the source, scaled down)
CadenceLen == 1
\* seconds from a placement to the next one the server allows
Cooldown == 20

(***************************************************************************)
(* Program constants.                                                       *)
(***************************************************************************)
PollInterval == 10
RetryDelay == 30
ErrorBackoff == 60
BanThreshold == 10000
RegionSize == 1000
RegionsPerRow == 3
Opaque == 255
unverified_rate_limit == 0
delay_between_launches == 3

\* json_data["workers"].keys(), in launch order
Usernames == <<"u1", "u2">>
Workers == {Usernames[i] : i \in 1..Len(Usernames)}

(***************************************************************************)
(* ColorMapper: palette and quantisation.                                   *)
(***************************************************************************)
BLACK == <<0, 0, 0>>
RED == <<255, 0, 0>>
GREEN == <<0, 255, 0>>
BLUE == <<0, 0, 255>>
WHITE == <<255, 255, 255>>

\* generate_rgb_colors_array(): the palette, identifier i at index i + 1
rgb_colors_array == <<BLACK, RED, GREEN, BLUE, WHITE>>

Dist2(a, b) ==
    (a[1] - b[1]) * (a[1] - b[1]) + (a[2] - b[2]) * (a[2] - b[2])
        + (a[3] - b[3]) * (a[3] - b[3])

\* index of the palette entry nearest to rgb, the lowest index among ties
closest_index(rgb, palette) ==
    CHOOSE i \in 1..Len(palette) :
        \A j \in 1..Len(palette) :
            \/ Dist2(rgb, palette[i]) < Dist2(rgb, palette[j])
            \/ Dist2(rgb, palette[i]) = Dist2(rgb, palette[j]) /\ i <= j

closest_color(rgb, palette) == palette[closest_index(rgb, palette)]

\* rgb_to_hex: the six hexadecimal digits of a colour
rgb_to_hex(rgb) ==
    <<rgb[1] \div 16, rgb[1] % 16, rgb[2] \div 16, rgb[2] % 16,
      rgb[3] \div 16, rgb[3] % 16>>

\* COLOR_MAP[hex]: the identifier of the palette colour with these digits
COLOR_MAP(hex) ==
    (CHOOSE i \in 1..Len(rgb_colors_array) : rgb_to_hex(rgb_colors_array[i]) = hex) - 1

(***************************************************************************)
(* Images.  An array is a function on positions <<row, col>>; a canvas      *)
(* image is a function on absolute coordinates <<x, y>>.                    *)
(***************************************************************************)
Positions(size) == (0..(size[2] - 1)) \X (0..(size[1] - 1))

Arr(rows) ==
    [p \in (0..(Len(rows) - 1)) \X (0..(Len(rows[1]) - 1)) |-> rows[p[1] + 1][p[2] + 1]]

Px(rgb, a) == [rgb |-> rgb, a |-> a]

\* what load_template_data can return: (coord, template); coord already
\* carries the canvas offset, size is template.size = (width, height)
TemplateA ==
    [coord |-> <<0, 0>>, size |-> <<2, 2>>,
     px |-> Arr(<< <<Px(RED, 255), Px(BLACK, 255)>>,
                   <<Px(<<250, 250, 250>>, 255), Px(GREEN, 0)>> >>)]

TemplateB ==
    [coord |-> <<1, 0>>, size |-> <<3, 2>>,
     px |-> Arr(<< <<Px(BLUE, 128), Px(<<10, 10, 10>>, 255), Px(BLACK, 255)>>,
                   <<Px(BLACK, 255), Px(WHITE, 0), Px(BLACK, 254)>> >>)]

Templates == {TemplateA, TemplateB}

CanvasXY == (0..3) \X (0..1)

CanvasBlack == [xy \in CanvasXY |-> BLACK]

\* what get_board can return: the stitched canvas image
CanvasImages == {CanvasBlack}

\* .crop((*coord, coord[0] + size[0], coord[1] + size[1])).convert("RGB") as
\* an array: row r, column c holds the canvas pixel (coord[0] + c, coord[1] + r)
crop(img, coord, size) ==
    [at |-> coord, size |-> size,
     px |-> [p \in Positions(size) |-> img[<<coord[1] + p[2], coord[2] + p[1]>>]]]

\* self.board = None
NoBoard == [at |-> <<0, 0>>, size |-> <<0, 0>>, px |-> <<>>]

(***************************************************************************)
(* compute_wrong_pixels.                                                    *)
(***************************************************************************)
\* the positions of an array of the given size in np.argwhere order
RowMajor(size) ==
    [i \in 1..(size[1] * size[2]) |-> <<(i - 1) \div size[1], (i - 1) % size[1]>>]

\* target_rgb: the template's rgb channels mapped to the palette
target_rgb(t) == [p \in DOMAIN t.px |-> closest_color(t.px[p].rgb, rgb_colors_array)]

\* self.board != target_rgb is elementwise only for arrays of one shape
SameShape(t, b) == b = NoBoard \/ b.size = t.size

\* a faulty mask: every pixel that is not fully transparent is kept
AlphaKeepsAny(a) == a > 0

AlphaKeeps(a) == a = Opaque

\* (self.board != target_rgb).any(axis=-1) & (target_a == 255)
Differs(t, b, p) ==
    /\ IF b = NoBoard THEN TRUE ELSE b.px[p] # target_rgb(t)[p]
    /\ AlphaKeeps(t.px[p].a)

\* list(zip(coords, target_rgb[coords[:,0], coords[:,1]]))
WrongPixels(t, b) ==
    LET coords == SelectSeq(RowMajor(t.size), LAMBDA p : Differs(t, b, p))
    IN  [i \in 1..Len(coords) |-> [coords |-> coords[i], rgb |-> target_rgb(t)[coords[i]]]]

\* a faulty early return: the list is recomputed on every call
RecomputeAlways(q) == TRUE

\* the early return of compute_wrong_pixels: recompute only an empty list
Recomputes(q) == Len(q) = 0

compute_wrong_pixels(q, t, b) == IF Recomputes(q) THEN WrongPixels(t, b) ELSE q


(***************************************************************************)
(* State.                                                                   *)
(***************************************************************************)
VARIABLES
    template,           \* self.coord, self.size, self.template
    board,              \* self.board, with the anchor it was cropped at
    wrong_pixels,       \* self.wrong_pixels
    update_lock,        \* the holder of self.update_lock, or None
    stop_event, board_outdated, template_outdated,
    access_tokens, access_token_expires_at_timestamp,
    pc,                 \* where each worker thread is
    now,                \* time.time() as each worker thread reads it
    current_time, time_to_wait, popped,     \* locals of task()
    response,           \* the last placement response a worker received
    main_pc, launched, cycle,               \* the main thread, in start()
    polls, retries,     \* how often a poll wait timed out, a connection failed
    call,               \* a call of set_pixel_and_check_ratelimit on its own
    basis,              \* the template and board wrong_pixels was computed from
    delivered,          \* the coordinates popped since that computation
    fresh,              \* a refresh completed and nothing was recomputed since
    refreshed           \* some refresh by update() has completed

cache == <<template, board, wrong_pixels>>
flags == <<board_outdated, template_outdated>>
auth == <<access_tokens, access_token_expires_at_timestamp>>
locals == <<current_time, time_to_wait, popped, response>>
main == <<main_pc, launched, cycle>>
history == <<basis, delivered, fresh, refreshed>>
bounded == <<polls, retries>>
vars == <<cache, flags, auth, locals, main, history, update_lock, stop_event, pc,
          now, bounded, call>>

\* no entry is held; an entry is (coords, new_rgb), with the anchor of the
\* template it was computed from
NoEntry == [coords |-> <<-1, -1>>, rgb |-> BLACK, anchor |-> <<-1, -1>>]

\* no response is held; a response is its kind with the timestamp it carries
NoResponse == [kind |-> "none", T |-> 0]

\* no request was built; a request is what connect.set_pixel is called with
NoRequest == [coord |-> <<-1, -1>>, colorIndex |-> -1, canvasIndex |-> -1]

\* no call is under way; a call is its arguments with the request it builds
NoCall == [coord |-> <<-1, -1>>, color_index |-> -1, request |-> NoRequest]

Max0(x) == IF x > 0 THEN x ELSE 0

\* the worker threads that have ended
Ended == {"stopped", "banned", "raised", "killed"}

\* Thread.is_alive()
is_alive(w) == pc[w] \notin Ended \cup {"unstarted"}

\* the sections of update() and get_wrong_pixel() under `with self.update_lock`
InSection(w) == pc[w] \in {"tmpl", "fetch", "fetch_retry", "pop"}

\* PlaceClient.__init__, then the first statements of start()
Init ==
    /\ template = TemplateA
    /\ board = NoBoard
    /\ wrong_pixels = <<>>
    /\ update_lock = None
    /\ stop_event = FALSE
    /\ board_outdated = FALSE
    /\ template_outdated = FALSE
    /\ access_tokens = [w \in Workers |-> None]
    /\ access_token_expires_at_timestamp = [w \in Workers |-> NoTime]
    /\ pc = [w \in Workers |-> "unstarted"]
    /\ now = [w \in Workers |-> 0]
    /\ current_time = [w \in Workers |-> 0]
    /\ time_to_wait = [w \in Workers |-> 0]
    /\ popped = [w \in Workers |-> NoEntry]
    /\ response = [w \in Workers |-> NoResponse]
    /\ main_pc = "launch"
    /\ launched = 0
    /\ cycle = 0
    /\ polls = 0
    /\ retries = 0
    /\ basis = <<>>
    /\ delivered = <<>>
    /\ fresh = FALSE
    /\ refreshed = FALSE
    /\ call = NoCall

(***************************************************************************)
(* Time.  The code compares no times of two threads, so each worker thread  *)
(* has its own reading of time.time(): now[w] is the time of w's latest     *)
(* step.  A timed wait of d seconds ends d seconds after it began; a wait   *)
(* bounds the delay from below only, so the steps of different threads      *)
(* interleave freely.                                                       *)
(***************************************************************************)
After(w, d) == [now EXCEPT ![w] = now[w] + Max0(d)]

(***************************************************************************)
(* A worker thread: task().                                                 *)
(***************************************************************************)
\* the thread ends: its locals are gone
End(w, how) ==
    /\ pc' = [pc EXCEPT ![w] = how]
    /\ current_time' = [current_time EXCEPT ![w] = 0]
    /\ time_to_wait' = [time_to_wait EXCEPT ![w] = 0]
    /\ popped' = [popped EXCEPT ![w] = NoEntry]
    /\ response' = [response EXCEPT ![w] = NoResponse]
    /\ now' = [now EXCEPT ![w] = 0]

\* a faulty condition: a token is still used at the second it expires
NeedsLoginLate(w, t) ==
    \/ access_tokens[w] = None
    \/ access_token_expires_at_timestamp[w] = NoTime
    \/ /\ access_token_expires_at_timestamp[w] # 0
       /\ t > access_token_expires_at_timestamp[w]

\* the condition of task() for refreshing the access token
NeedsLogin(w, t) ==
    \/ access_tokens[w] = None
    \/ access_token_expires_at_timestamp[w] = NoTime
    \/ /\ access_token_expires_at_timestamp[w] # 0
       /\ t >= access_token_expires_at_timestamp[w]

\* while not self.stop_event.wait(time_to_wait): the event is set
TaskStop(w) ==
    /\ pc[w] = "wait"
    /\ stop_event
    /\ End(w, "stopped")
    /\ UNCHANGED <<cache, flags, auth, main, history, update_lock, stop_event, bounded>>
    /\ UNCHANGED call

\* while not self.stop_event.wait(time_to_wait): the wait timed out; the
\* cycle reads the time and checks the token
TaskWake(w) ==
    /\ pc[w] = "wait"
    /\ ~stop_event
    /\ now' = After(w, time_to_wait[w])
    /\ current_time' = [current_time EXCEPT ![w] = now'[w]]
    /\ time_to_wait' = [time_to_wait EXCEPT ![w] = 0]
    /\ response' = [response EXCEPT ![w] = NoResponse]
    /\ pc' = [pc EXCEPT ![w] = IF NeedsLogin(w, now'[w]) THEN "login" ELSE "poll"]
    /\ UNCHANGED <<cache, flags, auth, popped, main, history, update_lock, stop_event,
                   bounded>>
    /\ UNCHANGED call

\* the worker moves on; its locals stay and no wait passes
Goto(w, where) ==
    /\ pc' = [pc EXCEPT ![w] = where]
    /\ UNCHANGED <<locals, now>>

\* a timed wait of d seconds of the worker has ended
Slept(w, where, d) ==
    /\ pc' = [pc EXCEPT ![w] = where]
    /\ now' = After(w, d)
    /\ UNCHANGED locals

(***************************************************************************)
(* connect.login.                                                           *)
(***************************************************************************)
\* expiresIn of the session ("this is usually 3600")
ExpiresIn == {3600}

\* the loop is not entered once the event is set, and r is unbound after it
LoginStopped(w) ==
    /\ pc[w] = "login"
    /\ stop_event
    /\ End(w, "raised")
    /\ UNCHANGED <<cache, flags, auth, main, history, update_lock, stop_event, bounded>>
    /\ UNCHANGED call

\* the requests raise: time.sleep(30), then the loop again
LoginFails(w) ==
    /\ pc[w] = "login"
    /\ ~stop_event
    /\ retries < MaxRetries
    /\ retries' = retries + 1
    /\ Goto(w, "login_retry")
    /\ UNCHANGED <<cache, flags, auth, main, history, update_lock, stop_event, polls>>
    /\ UNCHANGED call

LoginRetry(w) ==
    /\ pc[w] = "login_retry"
    /\ Slept(w, "login", RetryDelay)
    /\ UNCHANGED <<cache, flags, auth, main, history, update_lock, stop_event, bounded>>
    /\ UNCHANGED call

\* the event is set during time.sleep(30) after client.post raised: the loop
\* ends with r still bound to the response of client.get, and login reads
\* its status: it returns with nothing stored, or it goes on and stores what
\* the session holds (a raise after the loop is LoginStopped)
LoginStoppedWithResponse(w) ==
    /\ pc[w] = "login_retry"
    /\ stop_event
    /\ Slept(w, "poll", RetryDelay)
    /\ \/ UNCHANGED auth
       \/ /\ \E e \in ExpiresIn :
                access_token_expires_at_timestamp' =
                    [access_token_expires_at_timestamp EXCEPT ![w] = current_time[w] + e]
          /\ access_tokens' = [access_tokens EXCEPT ![w] = "token"]
    /\ UNCHANGED <<cache, flags, main, history, update_lock, stop_event, bounded>>
    /\ UNCHANGED call

\* the status is not OK: login returns, nothing is stored
LoginRejected(w) ==
    /\ pc[w] = "login"
    /\ ~stop_event
    /\ Goto(w, "poll")
    /\ UNCHANGED <<cache, flags, auth, main, history, update_lock, stop_event, bounded>>
    /\ UNCHANGED call

\* the session carries an error: exit(1) ends the thread
LoginSessionError(w) ==
    /\ pc[w] = "login"
    /\ ~stop_event
    /\ End(w, "raised")
    /\ UNCHANGED <<cache, flags, auth, main, history, update_lock, stop_event, bounded>>
    /\ UNCHANGED call

\* the token and its expiry are stored
LoginOk(w) ==
    /\ pc[w] = "login"
    /\ ~stop_event
    /\ \E e \in ExpiresIn :
          access_token_expires_at_timestamp' =
              [access_token_expires_at_timestamp EXCEPT ![w] = current_time[w] + e]
    /\ access_tokens' = [access_tokens EXCEPT ![w] = "token"]
    /\ Goto(w, "poll")
    /\ UNCHANGED <<cache, flags, main, history, update_lock, stop_event, bounded>>
    /\ UNCHANGED call

(***************************************************************************)
(* get_wrong_pixel and update.                                              *)
(***************************************************************************)
\* while not self.stop_event.wait(timeout=10): the event is set, the function
\* returns None and task() cannot unpack it
PollStop(w) ==
    /\ pc[w] = "poll"
    /\ stop_event
    /\ End(w, "raised")
    /\ UNCHANGED <<cache, flags, auth, main, history, update_lock, stop_event, bounded>>
    /\ UNCHANGED call

\* the wait timed out: update() is called and asks for the lock
PollWake(w) ==
    /\ pc[w] = "poll"
    /\ ~stop_event
    /\ polls < MaxPolls
    /\ polls' = polls + 1
    /\ Slept(w, "upd", PollInterval)
    /\ UNCHANGED <<cache, flags, auth, main, history, update_lock, stop_event, retries>>
    /\ UNCHANGED call

\* a faulty lock: acquired whoever holds it
LockFreeAlways(w) == TRUE

\* threading.Lock: acquired only when nobody holds it
LockFree(w) == update_lock = None

\* a faulty section: the lock stays with a thread that an exception ended
HeldOnRaise(w) == w

\* "with self.update_lock": an exception that leaves the block releases it
ReleasedOnRaise(w) == None

\* update() from "if self.board_outdated.is_set() or self.board is None" on;
\* did: this call has reloaded the template
BoardStep(w, did) ==
    IF board_outdated \/ board = NoBoard
    THEN /\ board_outdated' = FALSE
         /\ UNCHANGED history
         /\ IF access_tokens[w] = None
            THEN \* self.access_tokens[username] raises KeyError
                 /\ update_lock' = ReleasedOnRaise(w)
                 /\ End(w, "raised")
            ELSE /\ update_lock' = w
                 /\ Goto(w, "fetch")
    ELSE /\ UNCHANGED board_outdated
         /\ update_lock' = None
         /\ Goto(w, "cs")
         /\ fresh' = (fresh \/ did)
         /\ refreshed' = (refreshed \/ did)
         /\ UNCHANGED <<basis, delivered>>

\* update(): the lock is acquired and template_outdated is tested
UpdateEnter(w) ==
    /\ pc[w] = "upd"
    /\ LockFree(w)
    /\ IF template_outdated
       THEN /\ template_outdated' = FALSE
            /\ update_lock' = w
            /\ Goto(w, "tmpl")
            /\ UNCHANGED <<board_outdated, history>>
       ELSE /\ BoardStep(w, FALSE)
            /\ UNCHANGED template_outdated
    /\ UNCHANGED <<cache, auth, main, stop_event, bounded>>
    /\ UNCHANGED call

\* load_template_data returns nothing: update() returns
TemplateLoadFails(w) ==
    /\ pc[w] = "tmpl"
    /\ update_lock' = None
    /\ Goto(w, "cs")
    /\ UNCHANGED <<cache, flags, auth, main, history, stop_event, bounded>>
    /\ UNCHANGED call

\* load_template_data returns (coord, template)
TemplateLoaded(w) ==
    /\ pc[w] = "tmpl"
    /\ \E data \in Templates : template' = data
    /\ BoardStep(w, TRUE)
    /\ UNCHANGED <<board, wrong_pixels, template_outdated, auth, main, stop_event,
                   bounded>>
    /\ UNCHANGED call

\* get_board: the first loop is not entered once the event is set (ws is
\* unbound), or a later step raises (exit(), a closed socket)
FetchRaises(w) ==
    /\ pc[w] = "fetch"
    /\ update_lock' = ReleasedOnRaise(w)
    /\ End(w, "raised")
    /\ UNCHANGED <<cache, flags, auth, main, history, stop_event, bounded>>
    /\ UNCHANGED call

\* create_connection raises: time.sleep(30) with the lock held, then again
FetchFails(w) ==
    /\ pc[w] = "fetch"
    /\ ~stop_event
    /\ retries < MaxRetries
    /\ retries' = retries + 1
    /\ Goto(w, "fetch_retry")
    /\ UNCHANGED <<cache, flags, auth, main, history, update_lock, stop_event, polls>>
    /\ UNCHANGED call

FetchRetry(w) ==
    /\ pc[w] = "fetch_retry"
    /\ Slept(w, "fetch", RetryDelay)
    /\ UNCHANGED <<cache, flags, auth, main, history, update_lock, stop_event, bounded>>
    /\ UNCHANGED call

\* self.wrong_pixels = [] after a board update
Invalidate(q) == <<>>

\* get_board returns the canvas: it is cropped and stored
FetchOk(w) ==
    /\ pc[w] = "fetch"
    /\ ~stop_event
    /\ \E img \in CanvasImages : board' = crop(img, template.coord, template.size)
    /\ wrong_pixels' = Invalidate(wrong_pixels)
    /\ update_lock' = None
    /\ Goto(w, "cs")
    /\ fresh' = TRUE
    /\ refreshed' = TRUE
    /\ basis' = IF wrong_pixels' = <<>> THEN <<>> ELSE basis
    /\ delivered' = IF wrong_pixels' = <<>> THEN <<>> ELSE delivered
    /\ UNCHANGED <<template, flags, auth, main, stop_event, bounded>>
    /\ UNCHANGED call

\* get_wrong_pixel: with self.update_lock, self.compute_wrong_pixels(username);
\* arrays of two shapes cannot be compared and the call raises
Compute(w) ==
    /\ pc[w] = "cs"
    /\ LockFree(w)
    /\ IF Recomputes(wrong_pixels) /\ ~SameShape(template, board)
       THEN /\ update_lock' = ReleasedOnRaise(w)
            /\ End(w, "raised")
            /\ UNCHANGED <<wrong_pixels, history>>
       ELSE /\ wrong_pixels' = compute_wrong_pixels(wrong_pixels, template, board)
            /\ IF Recomputes(wrong_pixels)
               THEN /\ basis' = <<template, board>>
                    /\ delivered' = <<>>
                    /\ fresh' = FALSE
                    /\ UNCHANGED refreshed
               ELSE UNCHANGED history
            /\ Goto(w, "pop")
            /\ update_lock' = w
    /\ UNCHANGED <<template, board, flags, auth, main, stop_event, bounded>>
    /\ UNCHANGED call

\* a faulty pop: the entry returned stays in the list
PopKeeps(q) == q

\* list.pop(): the last entry is returned, the others stay
PopLeft(q) == SubSeq(q, 1, Len(q) - 1)

PopTaken(q) == q[Len(q)]

\* the list is empty: the lock is released and the loop waits again
PopNone(w) ==
    /\ pc[w] = "pop"
    /\ Len(wrong_pixels) = 0
    /\ update_lock' = None
    /\ Goto(w, "poll")
    /\ UNCHANGED <<cache, flags, auth, main, history, stop_event, bounded>>
    /\ UNCHANGED call

\* an entry is popped and returned
PopReturns(w) ==
    /\ pc[w] = "pop"
    /\ Len(wrong_pixels) > 0
    /\ wrong_pixels' = PopLeft(wrong_pixels)
    /\ delivered' = Append(delivered, PopTaken(wrong_pixels).coords)
    /\ popped' = [popped EXCEPT ![w] =
                    [coords |-> PopTaken(wrong_pixels).coords,
                     rgb |-> PopTaken(wrong_pixels).rgb,
                     anchor |-> basis[1].coord]]
    /\ pc' = [pc EXCEPT ![w] = "place"]
    /\ update_lock' = None
    /\ UNCHANGED <<template, board, flags, auth, current_time, time_to_wait, response,
                   now, main, basis, fresh, refreshed, stop_event, bounded>>
    /\ UNCHANGED call

\* an entry is popped and the log line raises: self.convas is assigned
\* nowhere in place.py (the collaborators that receive self may assign it)
PopRaises(w) ==
    /\ pc[w] = "pop"
    /\ Len(wrong_pixels) > 0
    /\ wrong_pixels' = PopLeft(wrong_pixels)
    /\ delivered' = Append(delivered, PopTaken(wrong_pixels).coords)
    /\ update_lock' = ReleasedOnRaise(w)
    /\ End(w, "raised")
    /\ UNCHANGED <<template, board, flags, auth, main, basis, fresh, refreshed,
                   stop_event, bounded>>
    /\ UNCHANGED call

(***************************************************************************)
(* set_pixel_and_check_ratelimit and the end of the cycle of task().        *)
(***************************************************************************)
\* the cooldown a placement answers with, in seconds from the request
Cooldowns == {Cooldown}

\* the responses of the placement request: a placement, an error with no
\* extensions, an error with the rate-limit extension; one placement is
\* answered with the timestamp that starts the next cycle when the token
\* expires
Responses(w) ==
    {[kind |-> "ok", T |-> now[w] + c] : c \in Cooldowns}
        \cup {[kind |-> "ok",
                T |-> access_token_expires_at_timestamp[w] - (now[w] - current_time[w])]}
        \cup {[kind |-> "ratelimit", T |-> current_time[w] + BanThreshold + d] : d \in {0, 1}}
        \cup {[kind |-> "error", T |-> 0]}

\* a faulty index: the regions counted two to a row
RequestTwoPerRow(coord, color_index) ==
    [coord |-> <<coord[1] % RegionSize, coord[2] % RegionSize>>,
     colorIndex |-> color_index,
     canvasIndex |-> (coord[1] \div RegionSize) + 2 * (coord[2] \div RegionSize)]

\* the request of set_pixel for an absolute coordinate
Request(coord, color_index) ==
    [coord |-> <<coord[1] % RegionSize, coord[2] % RegionSize>>,
     colorIndex |-> color_index,
     canvasIndex |-> (coord[1] \div RegionSize) + RegionsPerRow * (coord[2] \div RegionSize)]

\* what task() passes: self.coord + relative and the colour's identifier
PlaceRequest(w) ==
    Request(<<template.coord[1] + popped[w].coords[1],
              template.coord[2] + popped[w].coords[2]>>,
            COLOR_MAP(rgb_to_hex(popped[w].rgb)))

\* the value set_pixel_and_check_ratelimit returns
NextTime(resp, t) ==
    IF resp.kind = "error" THEN ErrorBackoff ELSE resp.T

\* time_to_wait = next_placement_time - current_time
TimeToWait(next_placement_time, start, t) == next_placement_time - start

\* a faulty comparison: the threshold itself ends the thread
BannedAtOrOver(t) == t >= BanThreshold

\* if time_to_wait > 10000
Banned(t) == t > BanThreshold

\* a faulty task(): the entry of a placement is put back on the list
Requeued(q, e) == Append(q, [coords |-> e.coords, rgb |-> e.rgb])

\* task() never touches wrong_pixels: whatever set_pixel_and_check_ratelimit
\* does, the popped entry is not put back
AfterPlacement(q, e) == q

\* self.access_tokens[username] raises KeyError, or the request raises
PlaceRaises(w) ==
    /\ pc[w] = "place"
    /\ wrong_pixels' = AfterPlacement(wrong_pixels, popped[w])
    /\ End(w, "raised")
    /\ UNCHANGED <<template, board, flags, auth, main, history, update_lock, stop_event,
                   bounded>>
    /\ UNCHANGED call

\* the pixel is submitted and the response sets the next wait; beyond the
\* threshold the thread returns
Place(w) ==
    /\ pc[w] = "place"
    /\ access_tokens[w] # None
    /\ \E resp \in Responses(w) :
          LET t == TimeToWait(NextTime(resp, now[w]), current_time[w], now[w])
          IN  /\ pc' = [pc EXCEPT ![w] = IF Banned(t) THEN "banned" ELSE "wait"]
              /\ time_to_wait' = [time_to_wait EXCEPT ![w] = t]
              /\ response' = [response EXCEPT ![w] = resp]
    /\ popped' = [popped EXCEPT ![w] = NoEntry]
    /\ wrong_pixels' = AfterPlacement(wrong_pixels, popped[w])
    /\ UNCHANGED <<template, board, flags, auth, now, current_time, main, history,
                   update_lock, stop_event, bounded>>
    /\ UNCHANGED call

(***************************************************************************)
(* The main thread: start().                                                *)
(***************************************************************************)
\* thread.start() of the next worker, then time.sleep(delay_between_launches)
Launch ==
    /\ main_pc = "launch"
    /\ launched < Len(Usernames)
    /\ launched' = launched + 1
    /\ pc' = [pc EXCEPT ![Usernames[launched + 1]] = "wait"]
    /\ time_to_wait' = [time_to_wait EXCEPT ![Usernames[launched + 1]] = unverified_rate_limit]
    /\ now' = [now EXCEPT ![Usernames[launched + 1]] =
                  StartTime + launched * delay_between_launches]
    /\ UNCHANGED <<cache, flags, auth, current_time, popped, response, main_pc, cycle,
                   history, update_lock, stop_event, bounded>>
    /\ UNCHANGED call

\* every thread is started: the try block and its loops are entered
EnterLoop ==
    /\ main_pc = "launch"
    /\ launched = Len(Usernames)
    /\ main_pc' = "loop"
    /\ cycle' = 0
    /\ UNCHANGED <<cache, flags, auth, locals, launched, history, update_lock,
                   stop_event, pc, now, bounded>>
    /\ UNCHANGED call

\* a faulty check: the threads are taken for dead
NoneAlive == FALSE

\* any(thread.is_alive() for thread in threads)
AnyAlive == \E w \in Workers : is_alive(w)

\* one pass of "for _ in range(100)": board_outdated is set and the threads
\* are checked
Iterate ==
    /\ main_pc = "loop"
    /\ board_outdated' = TRUE
    /\ IF AnyAlive
       THEN /\ cycle' = cycle + 1
            /\ main_pc' = IF cycle + 1 = CadenceLen THEN "template" ELSE "loop"
       ELSE \* run = False; break
            /\ main_pc' = "template_last"
            /\ UNCHANGED cycle
    /\ UNCHANGED <<cache, template_outdated, auth, locals, launched, history,
                   update_lock, stop_event, pc, now, bounded>>
    /\ UNCHANGED call

\* self.template_outdated.set() after the inner loop
SetTemplateOutdated ==
    /\ main_pc \in {"template", "template_last"}
    /\ template_outdated' = TRUE
    /\ cycle' = 0
    /\ main_pc' = IF main_pc = "template" THEN "loop" ELSE "returned"
    /\ UNCHANGED <<cache, board_outdated, auth, locals, launched, history,
                   update_lock, stop_event, pc, now, bounded>>
    /\ UNCHANGED call

\* KeyboardInterrupt inside the try block: the event is set
Interrupt ==
    /\ main_pc \in {"loop", "template", "template_last"}
    /\ stop_event' = TRUE
    /\ main_pc' = "join"
    /\ UNCHANGED <<cache, flags, auth, locals, launched, cycle, history, update_lock,
                   pc, now, bounded>>
    /\ UNCHANGED call

\* KeyboardInterrupt while the threads are being started, outside the try
\* block: the main thread ends and the daemon threads end with the process
InterruptLaunch ==
    /\ main_pc = "launch"
    /\ main_pc' = "interrupted"
    /\ pc' = [w \in Workers |-> IF is_alive(w) THEN "killed" ELSE pc[w]]
    /\ current_time' = [w \in Workers |-> 0]
    /\ time_to_wait' = [w \in Workers |-> 0]
    /\ popped' = [w \in Workers |-> NoEntry]
    /\ response' = [w \in Workers |-> NoResponse]
    /\ now' = [w \in Workers |-> 0]
    /\ UNCHANGED <<cache, flags, auth, launched, cycle, history, update_lock,
                   stop_event, bounded>>
    /\ UNCHANGED call

\* thread.join() of every thread, then exit(0)
Join ==
    /\ main_pc = "join"
    /\ \A w \in Workers : ~is_alive(w)
    /\ main_pc' = "exited"
    /\ UNCHANGED <<cache, flags, auth, locals, launched, cycle, history, update_lock,
                   stop_event, pc, now, bounded>>
    /\ UNCHANGED call

(***************************************************************************)
(* set_pixel_and_check_ratelimit on its own: the coordinate is drawn from    *)
(* the corners of every region of the canvas and the call builds the         *)
(* request of connect.set_pixel.                                             *)
(***************************************************************************)
\* the distances from a region's edges that are drawn
MaxOffset == 1

\* the canvas is RegionsPerRow regions wide and RegionRows high: "0 | 1 | 2"
\* over "3 | 4 | 5"
RegionRows == 2

Offsets == (0..MaxOffset) \cup ((RegionSize - 1 - MaxOffset)..(RegionSize - 1))

AbsoluteCoords ==
    {<<c * RegionSize + dx, r * RegionSize + dy>> :
        c \in 0..(RegionsPerRow - 1), r \in 0..(RegionRows - 1),
        dx \in Offsets, dy \in Offsets}

ColorIndexes == {0, Len(rgb_colors_array) - 1}

\* the program is at rest in its initial state while a call is made
TranslateInit ==
    /\ template = TemplateA
    /\ board = NoBoard
    /\ wrong_pixels = <<>>
    /\ update_lock = None
    /\ stop_event = FALSE
    /\ board_outdated = FALSE
    /\ template_outdated = FALSE
    /\ access_tokens = [w \in Workers |-> None]
    /\ access_token_expires_at_timestamp = [w \in Workers |-> NoTime]
    /\ pc = [w \in Workers |-> "unstarted"]
    /\ now = [w \in Workers |-> 0]
    /\ current_time = [w \in Workers |-> 0]
    /\ time_to_wait = [w \in Workers |-> 0]
    /\ popped = [w \in Workers |-> NoEntry]
    /\ response = [w \in Workers |-> NoResponse]
    /\ main_pc = "launch"
    /\ launched = 0
    /\ cycle = 0
    /\ polls = 0
    /\ retries = 0
    /\ basis = <<>>
    /\ delivered = <<>>
    /\ fresh = FALSE
    /\ refreshed = FALSE
    /\ \E coord \in AbsoluteCoords, color_index \in ColorIndexes :
          call = [coord |-> coord, color_index |-> color_index, request |-> NoRequest]

\* subcoord, subcanvas and the arguments of connect.set_pixel
SetPixelCall ==
    /\ call.request = NoRequest
    /\ call' = [call EXCEPT !.request = Request(call.coord, call.color_index)]
    /\ UNCHANGED <<cache, flags, auth, locals, main, history, update_lock, stop_event,
                   pc, now, bounded>>

TranslateSpec == TranslateInit /\ [][SetPixelCall]_vars

(***************************************************************************)
(* The specification.                                                       *)
(***************************************************************************)
Worker(w) ==
    \/ TaskStop(w) \/ TaskWake(w)
    \/ LoginStopped(w) \/ LoginFails(w) \/ LoginRetry(w)
    \/ LoginStoppedWithResponse(w) \/ LoginRejected(w)
    \/ LoginSessionError(w) \/ LoginOk(w)
    \/ PollStop(w) \/ PollWake(w)
    \/ UpdateEnter(w) \/ TemplateLoadFails(w) \/ TemplateLoaded(w)
    \/ FetchRaises(w) \/ FetchFails(w) \/ FetchRetry(w) \/ FetchOk(w)
    \/ Compute(w) \/ PopNone(w) \/ PopReturns(w) \/ PopRaises(w)
    \/ PlaceRaises(w) \/ Place(w)

Coordinator ==
    \/ Launch \/ EnterLoop \/ Iterate \/ SetTemplateOutdated
    \/ Interrupt \/ InterruptLaunch \/ Join

Next == Coordinator \/ \E w \in Workers : Worker(w)

Spec == Init /\ [][Next]_vars

\* the main thread is scheduled: time.sleep returns and its loops go on, and
\* join() returns once the threads have ended; an interrupt is never owed
MainRuns == Launch \/ EnterLoop \/ Iterate \/ SetTemplateOutdated \/ Join

FairSpec == Spec /\ WF_vars(MainRuns)

(***************************************************************************)
(* Properties.                                                              *)
(***************************************************************************)
Range(q) == {q[i] : i \in 1..Len(q)}

\* C1: at most one worker is inside a refresh of update() or inside the
\* compute-and-pop section of get_wrong_pixel(), and the worker that is inside
\* holds the lock: no two workers are in these sections at the same time.
C1_MutualExclusion ==
    /\ \A a, b \in Workers : (InSection(a) /\ InSection(b)) => a = b
    /\ \A w \in Workers : InSection(w) => update_lock = w

\* one worker is fetching the board under the lock while the other has
\* called update() or reached the compute-and-pop section and waits for it
C1_Witness ==
    \E a, b \in Workers :
        /\ a # b
        /\ pc[a] \in {"fetch", "fetch_retry"}
        /\ pc[b] \in {"upd", "cs"}
        /\ update_lock = a

\* C2: after any refresh by update() has completed, of the template as well
\* as of the board, wrong_pixels is empty until compute_wrong_pixels
\* recomputes it.
C2_QueueEmptyAfterRefresh == fresh => wrong_pixels = <<>>

\* C3: in every state after a refresh by update() in which a board exists and
\* no update() is under way, the board has the size of the current template
\* and was cropped at its anchor.
C3_SnapshotAligned ==
    (/\ refreshed
     /\ board # NoBoard
     /\ \A w \in Workers : pc[w] \notin {"tmpl", "fetch", "fetch_retry"})
        => (board.size = template.size /\ board.at = template.coord)

\* C4: the entry a worker pops was computed from the template and the board
\* that are current when it is popped, and the anchor the worker adds to the
\* popped coordinate when it places is the anchor of the template the entry
\* was computed from.
C4_NoTripleSpansRefresh ==
    [][\A w \in Workers :
          /\ (pc[w] = "pop" /\ Len(wrong_pixels') < Len(wrong_pixels))
                => basis = <<template, board>>
          /\ (pc[w] = "place" /\ pc'[w] \in {"wait", "banned"})
                => popped[w].anchor = template.coord]_vars

\* C5: between two recomputations of wrong_pixels no coordinate is popped
\* twice, whichever workers pop.
C5_NoDuplicateDelivery ==
    \A i, j \in 1..Len(delivered) : delivered[i] = delivered[j] => i = j

\* both workers hold an entry of one computation
C5_Witness ==
    /\ Len(delivered) >= 2
    /\ \A w \in Workers : pc[w] = "place" /\ popped[w] # NoEntry

\* the positions the claim includes, with the palette colour of the template
Included(t, b) ==
    {p \in Positions(t.size) :
        /\ t.px[p].a = Opaque
        /\ closest_color(t.px[p].rgb, rgb_colors_array) # b.px[p]}

\* C6: recomputed from a template and a board of one size, wrong_pixels holds
\* a position exactly when the template's alpha there is 255 and its palette
\* colour differs from the board's; every entry carries that palette colour,
\* once.
C6_WrongPixelsExact ==
    (/\ basis # <<>>
     /\ delivered = <<>>
     /\ basis[2] # NoBoard
     /\ basis[2].size = basis[1].size)
        => /\ {e.coords : e \in Range(wrong_pixels)} = Included(basis[1], basis[2])
           /\ \A e \in Range(wrong_pixels) :
                 e.rgb = closest_color(basis[1].px[e.coords].rgb, rgb_colors_array)
           /\ Len(wrong_pixels) = Cardinality(Included(basis[1], basis[2]))

\* wrong_pixels was just recomputed from TemplateA and a board of its size:
\* two positions differ and are opaque, one matches, one is transparent
C6_Witness ==
    /\ \E w \in Workers : pc[w] = "pop"
    /\ basis # <<>>
    /\ delivered = <<>>
    /\ basis[1] = TemplateA
    /\ basis[2] # NoBoard
    /\ Len(wrong_pixels) = 2
    /\ \E p \in Positions(TemplateA.size) :
          TemplateA.px[p].a # Opaque /\ TemplateA.px[p].rgb # basis[2].px[p]

\* C7: compute_wrong_pixels on a non-empty list changes neither the list nor
\* the template nor the board; the list changes only when it was empty; and a
\* second call right after a call leaves the list as the first call left it.
C7_LazyIdempotent ==
    [][\A w \in Workers :
          (pc[w] = "cs" /\ pc'[w] = "pop") =>
              /\ wrong_pixels # <<>> => UNCHANGED cache
              /\ wrong_pixels' # wrong_pixels => wrong_pixels = <<>>
              /\ compute_wrong_pixels(wrong_pixels', template', board') = wrong_pixels']_vars

\* compute_wrong_pixels was called on a list that an earlier pop had left
\* non-empty
C7_Witness ==
    /\ \E w \in Workers : pc[w] = "pop"
    /\ delivered # <<>>
    /\ wrong_pixels # <<>>

\* C8: after a placement, or a refusal with the rate-limit extension, that
\* carries the timestamp T, the worker waits T - now clamped to 0, now being
\* the time the wait begins.
C8_WaitUntilT ==
    \A w \in Workers :
        (pc[w] = "wait" /\ response[w].kind \in {"ok", "ratelimit"})
            => Max0(time_to_wait[w]) = Max0(response[w].T - now[w])

\* C9: after an error without the rate-limit extension the computed wait is
\* the backoff of 60 seconds.
C9_ErrorBackoff ==
    \A w \in Workers :
        (pc[w] = "wait" /\ response[w].kind = "error")
            => time_to_wait[w] = ErrorBackoff

\* C10: a computed wait over 10000 ends that worker's thread for good, and the
\* step changes neither the cache, the flags, the lock, the tokens nor any
\* other worker; a computed wait of 10000 or less never ends the thread.
C10_BanHeuristic ==
    [][\A w \in Workers :
          /\ (pc[w] = "place" /\ pc'[w] = "banned") =>
                /\ time_to_wait'[w] > BanThreshold
                /\ UNCHANGED <<cache, flags, auth, update_lock, stop_event>>
                /\ \A o \in Workers \ {w} : pc'[o] = pc[o]
          /\ (pc[w] = "place" /\ pc'[w] = "wait") => time_to_wait'[w] <= BanThreshold
          /\ (pc[w] = "place" /\ time_to_wait'[w] > BanThreshold) => pc'[w] = "banned"
          /\ pc[w] = "banned" => pc'[w] = "banned"]_vars

\* one worker was banned and the other, not banned, goes on to its next cycle
\* after a wait of exactly the threshold
C10_Witness ==
    \E w, o \in Workers :
        /\ pc[w] = "banned"
        /\ time_to_wait[w] = BanThreshold + 1
        /\ pc[o] = "wait"
        /\ time_to_wait[o] = BanThreshold

\* C11: a cycle of task() calls login exactly when the worker holds no token
\* or the expiry of its token is at or before the time the cycle read; a
\* token is used in the cycles before its expiry and renewed in the first
\* cycle that starts at or after it.
C11_LoginIffNoValidToken ==
    [][\A w \in Workers :
          (pc[w] = "wait" /\ pc'[w] \in {"login", "poll"}) =>
              (pc'[w] = "login" <=>
                  \/ access_tokens[w] = None
                  \/ access_token_expires_at_timestamp[w] <= current_time'[w])]_vars

\* a worker that holds a token begins a cycle at the very second the token
\* expires and is about to log in again
C11_Witness ==
    \E w \in Workers :
        /\ pc[w] = "login"
        /\ access_tokens[w] # None
        /\ current_time[w] = access_token_expires_at_timestamp[w]

\* where a worker is between the call of get_wrong_pixel and the end of the
\* placement
Acquiring == {"poll", "upd", "tmpl", "fetch", "fetch_retry", "cs", "pop"}

\* C12: a login that fails (a response that is not OK, a session that
\* carries an error) ends the worker's thread at that point, and a worker
\* acquires a discrepancy or places only with a token that a login stored.
C12_AuthFailureEndsLoop ==
    [][\A w \in Workers :
          /\ (pc[w] = "login" /\ pc'[w] \notin {"login", "login_retry"} /\ UNCHANGED auth)
                => pc'[w] \in Ended
          /\ pc'[w] \in Acquiring \cup {"place"} => access_tokens'[w] # None]_vars

\* C13: once stop_event is set no worker completes a timed wait any more:
\* the cooldown wait, the poll wait and the 30 second delays of login and of
\* get_board are all ended by the event.
C13_ShutdownEndsEveryWait ==
    [][\A w \in Workers :
          (stop_event /\ is_alive(w) /\ pc'[w] \notin Ended) => now'[w] <= now[w]]_vars

\* C14: after an interrupt that arrives once the first worker is launched,
\* stop_event is set, and the main thread has ended only when every worker
\* thread has ended by itself.
C14_InterruptStopsAndJoins ==
    (main_pc \in {"join", "exited", "interrupted"} /\ launched >= 1)
        => /\ stop_event
           /\ main_pc # "join" =>
                 \A w \in Workers : pc[w] \in {"unstarted", "stopped", "banned", "raised"}

\* the positions held by a list
Coords(q) == {q[i].coords : i \in 1..Len(q)}

Refreshing == {"upd", "tmpl", "fetch", "fetch_retry"}

\* C16: a refresh that fails leaves the cache as it was: the step of update()
\* in which the template load fails or the board fetch raises changes neither
\* the template (with its anchor and size) nor the board nor wrong_pixels.
\* (A step from "tmpl" to "cs" that leaves fresh false is a load that failed.)
C16_FailedRefreshKeepsCache ==
    [][\A w \in Workers :
          (/\ pc[w] \in Refreshing
           /\ \/ pc'[w] = "raised"
              \/ pc[w] = "tmpl" /\ pc'[w] = "cs" /\ fresh' = fresh /\ ~fresh)
              => UNCHANGED cache]_vars

\* C17: a worker that pops an entry goes on to the placement holding that
\* entry, a placement is entered only from a pop, and a placement that was
\* entered is submitted (the worker leaves it with the service's response).
C17_PopThenPlaceOnce ==
    [][\A w \in Workers :
          /\ (pc[w] = "pop" /\ pc'[w] # "pop" /\ wrong_pixels' # wrong_pixels) =>
                /\ pc'[w] = "place"
                /\ popped'[w].coords = PopTaken(wrong_pixels).coords
                /\ popped'[w].rgb = PopTaken(wrong_pixels).rgb
          /\ (pc'[w] = "place" /\ pc[w] # "place") =>
                /\ pc[w] = "pop"
                /\ wrong_pixels' = PopLeft(wrong_pixels)
          /\ (pc[w] = "place" /\ pc'[w] # "place") =>
                /\ pc'[w] \in {"wait", "banned"}
                /\ response'[w] # NoResponse]_vars

\* C18: every attempt to compute and pop comes straight out of update(); a
\* worker that finds the list empty polls again; and a worker leaves
\* get_wrong_pixel() only to place the entry it popped or, once stop_event is
\* set, to end without a placement (a thread killed with the process takes
\* no step of its own).
C18_AcquireLeavesWithEntryOrStop ==
    [][\A w \in Workers :
          /\ (pc'[w] = "cs" /\ pc[w] # "cs") => pc[w] \in Refreshing
          /\ (pc[w] = "pop" /\ pc'[w] \in Acquiring \ {"pop"}) =>
                pc'[w] = "poll" /\ wrong_pixels = <<>>
          /\ (pc[w] \in Acquiring /\ pc'[w] \notin Acquiring) =>
                \/ pc'[w] = "place" /\ popped'[w] # NoEntry
                \/ stop_event /\ pc'[w] \in Ended
                \/ pc'[w] = "killed"]_vars

\* the main thread has left start()
Stopped == main_pc \in {"returned", "exited", "interrupted"}

C20_RetryUntilSuccessOrStop ==
    [][\A w \in Workers :
          /\ (pc[w] = "login_retry" /\ pc'[w] \notin {"login_retry", "killed"}) =>
                pc'[w] = "login" /\ now'[w] = now[w] + RetryDelay
          /\ (pc[w] = "fetch_retry" /\ pc'[w] \notin {"fetch_retry", "killed"}) =>
                pc'[w] = "fetch" /\ now'[w] = now[w] + RetryDelay
          /\ (/\ stop_event
              /\ pc[w] \in {"login", "fetch"}
              /\ pc'[w] # pc[w]) => pc'[w] \in Ended]_vars

\* C21: for an absolute coordinate (x, y) of the canvas the request carries
\* (x mod 1000, y mod 1000) and the index (x div 1000) + 3 * (y div 1000); the
\* index is one of the six regions, and coordinate and index give (x, y)
\* back, so no two absolute coordinates share a request.
C21_SubRegionTranslation ==
    call.request # NoRequest =>
        LET x == call.coord[1]
            y == call.coord[2]
            r == call.request
        IN  /\ r.coord = <<x % RegionSize, y % RegionSize>>
            /\ r.canvasIndex = (x \div RegionSize) + RegionsPerRow * (y \div RegionSize)
            /\ r.canvasIndex \in 0..(RegionsPerRow * RegionRows - 1)
            /\ r.colorIndex = call.color_index
            /\ x = r.coord[1] + RegionSize * (r.canvasIndex % RegionsPerRow)
            /\ y = r.coord[2] + RegionSize * (r.canvasIndex \div RegionsPerRow)

\* the request of the last pixel of the canvas: the last pixel of region 5
C21_Witness ==
    /\ call.coord = <<RegionsPerRow * RegionSize - 1, RegionRows * RegionSize - 1>>
    /\ call.request # NoRequest
    /\ call.request.canvasIndex = RegionsPerRow * RegionRows - 1
    /\ call.request.coord = <<RegionSize - 1, RegionSize - 1>>

\* the steps at which a worker asks for the lock
Requesting == {"upd", "cs"}

\* C22: the lock is held only by a worker inside update()'s refresh or the
\* compute-and-pop section: a worker that has left a section, by completing
\* it, by returning early or with an entry, or by an exception, does not hold
\* it, and a worker that asks for the lock does not hold it; so whenever a
\* live worker waits for a held lock, its holder is another live worker
\* inside a section.
C22_LockNeverLeaked ==
    /\ \A w \in Workers :
          (update_lock = w /\ pc[w] # "killed") => is_alive(w) /\ InSection(w)
    /\ \A w \in Workers :
          (is_alive(w) /\ pc[w] \in Requesting /\ update_lock # None) =>
              /\ update_lock \in Workers \ {w}
              /\ is_alive(update_lock)
              /\ InSection(update_lock)

\* the board fetch of one worker raised under the lock while no board was
\* held, and the other worker has since taken the lock for its own fetch
C22_Witness ==
    \E a, b \in Workers :
        /\ pc[a] = "raised" /\ access_tokens[a] # None
        /\ ~stop_event /\ board = NoBoard /\ ~template_outdated
        /\ pc[b] = "fetch" /\ update_lock = b

\* the steps of update() before the board branch is decided
Deciding == {"upd", "tmpl"}

\* C23: a flag is cleared only by the step of update() that starts the
\* refresh it stands for, and set only by the main thread; an update() call
\* that finds board_outdated (template_outdated) set goes on to fetch the
\* board (load the template).
C23_NoInvalidationLost ==
    [][/\ (board_outdated /\ ~board_outdated') =>
              \E w \in Workers : pc[w] \in Deciding /\ pc'[w] = "fetch"
       /\ (template_outdated /\ ~template_outdated') =>
              \E w \in Workers : pc[w] = "upd" /\ pc'[w] = "tmpl"
       /\ \A w \in Workers :
              (/\ board_outdated
               /\ pc[w] \in Deciding
               /\ pc'[w] \notin Deciding \cup {"killed"}) => pc'[w] = "fetch"
       /\ \A w \in Workers :
              (/\ template_outdated
               /\ pc[w] = "upd"
               /\ pc'[w] \notin {"upd", "killed"}) => pc'[w] = "tmpl"
       /\ (~board_outdated /\ board_outdated') => main_pc = "loop"
       /\ (~template_outdated /\ template_outdated') =>
              main_pc \in {"template", "template_last"}]_vars

\* C24: compute_wrong_pixels() recomputes the list only when a board is held:
\* in the step in which a worker recomputes an empty list, board is not None.
C24_RecomputationHasBoard ==
    [][\A w \in Workers :
          (/\ pc[w] = "cs" /\ pc'[w] = "pop"
           /\ Recomputes(wrong_pixels)) => board # NoBoard]_vars

=============================================================================
